---- MODULE Spec2Model ----
(***************************************************************************)
(* Verification model of digitalbazaar/web-request-mediator.               *)
(*                                                                         *)
(*   SpecCookie : the cookie storage driver (src/lib/cookieDriver.js),     *)
(*                several driver instances sharing one cookie jar.         *)
(*   SpecPM     : the PermissionManager (src/PermissionManager.js,         *)
(*                lines 143-285), concurrent query/request/revoke calls    *)
(*                suspended at every storage access and at the consent      *)
(*                function.                                                *)
(*   SpecReg    : the WebRequestHandlersService                            *)
(*                (src/lib/WebRequestHandlersService.js, lines 1-235),     *)
(*                concurrent registry calls suspended at every storage     *)
(*                access and at the work attached to the notification.     *)
(*                                                                         *)
(* Strings that the code concatenates, prefix-tests or slices are modelled *)
(* as sequences of one-character strings.                                  *)
(***************************************************************************)
EXTENDS Integers, Sequences, FiniteSets, TLC

VARIABLES
  jar,        \* the browser cookie jar: sequence of [name, value, writer]
  cLast,      \* the last completed cookie-driver call and its result
  registry,   \* PermissionManager.registry, per manager
  store,      \* the localforage instance 'permission_' + origin, per origin
  calls,      \* in-flight PermissionManager calls, per call slot
  originIndex,  \* 'webRequestHandler_<type>_origin' stores: origin -> config
  handlers,     \* 'webRequestHandler_<type>_<origin>_registration' stores
  rcalls,       \* in-flight WebRequestHandlersService calls, per call slot
  scPerm,     \* the persisted status of the container's required permission
  items,      \* '<itemType>_<url>' stores: url -> key -> item
  scWrites,   \* setItem calls that SimpleContainerService.set left in flight
  sccalls     \* in-flight SimpleContainerService calls, per call slot

vars ==
  <<jar, cLast, registry, store, calls, originIndex, handlers, rcalls,
    scPerm, items, scWrites, sccalls>>
cookieVars == <<jar, cLast>>
pmVars == <<registry, store, calls>>
regVars == <<originIndex, handlers, rcalls>>
scVars == <<scPerm, items, scWrites, sccalls>>

(***************************************************************************)
(* Bounds                                                                  *)
(***************************************************************************)
MaxCookies == 2

(***************************************************************************)
(* String helpers (String.prototype.startsWith / substring)                *)
(***************************************************************************)
StartsWith(s, p) == Len(s) >= Len(p) /\ SubSeq(s, 1, Len(p)) = p

Substring(s, n) == SubSeq(s, n + 1, Len(s))

(***************************************************************************)
(* JavaScript values and their JSON text                                   *)
(***************************************************************************)
Undefined == [t |-> "undefined", v |-> ""]
Null == [t |-> "null", v |-> ""]
True == [t |-> "boolean", v |-> "true"]
StrV == [t |-> "string", v |-> "v"]

JSValues == {Undefined, Null, StrV}

\* JSON.stringify: the JSON text of a value
JSONStringify(x) ==
  CASE x.t = "null" -> "null"
    [] x.t = "boolean" -> x.v
    [] x.t = "string" -> "\"" \o x.v \o "\""
    [] OTHER -> "undefined"

\* JSON.parse, on the texts JSONStringify produces
JSONParse(txt) ==
  CASE txt = "null" -> Null
    [] txt = "true" -> True
    [] txt = "\"v\"" -> StrV
    [] OTHER -> Undefined

(***************************************************************************)
(* Cookie driver: instances and keys                                       *)
(***************************************************************************)
\* localforage's default config storeName, compared in _getKeyPrefix
DefaultStoreName == <<"k","e","y","v","a","l","u","e","p","a","i","r","s">>

NoString == <<>>

InstP == [name |-> <<"p">>, storeName |-> DefaultStoreName]
InstPX == [name |-> <<"p">>, storeName |-> <<"x">>]
InstQ == [name |-> <<"q">>, storeName |-> DefaultStoreName]

\* the driver instances that share the jar
Instances == {InstP, InstPX, InstQ}

\* keys the callers use
CookieKeys == {<<"a">>, <<"x", "_", "_", "a">>}

\* the options argument of dropInstance (NoString = property not given)
DropOptions ==
  { [name |-> NoString, storeName |-> NoString],
    [name |-> <<"p">>, storeName |-> NoString],
    [name |-> <<"p">>, storeName |-> <<"x">>] }

\* _getKeyPrefix(options, defaultConfig)
GetKeyPrefix(options) ==
  <<"_", "l", "f", "_">> \o options.name \o <<"_", "_">> \o
    (IF options.storeName # DefaultStoreName
       THEN options.storeName \o <<"_", "_">>
       ELSE <<>>)

\* this._dbInfo.keyPrefix as set by _initStorage
KeyPrefix(inst) == GetKeyPrefix(inst)

(***************************************************************************)
(* tiny-cookie on the shared jar                                           *)
(***************************************************************************)
JarNames(j) == { j[i].name : i \in 1..Len(j) }

JarIndex(j, name) == CHOOSE i \in 1..Len(j) : j[i].name = name

\* get(name): the cookie's text, or "" (falsy) when there is no such cookie
CookieGet(j, name) ==
  IF name \in JarNames(j) THEN j[JarIndex(j, name)].value ELSE ""

\* set(name, value, COOKIE_OPTIONS): replaces the cookie of that name or
\* adds one; w records the instance the write came through
CookieSet(j, name, value, w) ==
  IF name \in JarNames(j)
    THEN [j EXCEPT ![JarIndex(j, name)] =
            [name |-> name, value |-> value, writer |-> w]]
    ELSE Append(j, [name |-> name, value |-> value, writer |-> w])

\* remove(name, COOKIE_OPTIONS)
CookieRemove(j, name) ==
  LET Keep(c) == c.name # name
  IN SelectSeq(j, Keep)

\* _clear(keyPrefix): removes every cookie whose name starts with keyPrefix
ClearPrefix(j, keyPrefix) ==
  LET Keep(c) == ~StartsWith(c.name, keyPrefix)
  IN SelectSeq(j, Keep)

\* the cookies (in jar order) whose name starts with the instance's prefix
Matching(j, inst) ==
  LET Mine(c) == StartsWith(c.name, KeyPrefix(inst))
  IN SelectSeq(j, Mine)

\* keys(): matching cookie names with the prefix stripped
KeysOf(j, inst) ==
  LET m == Matching(j, inst)
  IN [i \in 1..Len(m) |-> Substring(m[i].name, Len(KeyPrefix(inst)))]

\* getItem(key): parsed text of the cookie keyPrefix + key, null if absent
GetItemOfUnparsed(j, inst, key) ==
  LET result == CookieGet(j, KeyPrefix(inst) \o key)
  IN IF result # "" THEN [t |-> "string", v |-> result] ELSE Null

GetItemOf(j, inst, key) ==
  LET result == CookieGet(j, KeyPrefix(inst) \o key)
  IN IF result # "" THEN JSONParse(result) ELSE Null

\* iterate(): the (value, key, iterationNumber) triples handed to the visitor
\* in a full traversal
VisitsOfJarCount(j, inst) ==
  LET m == Matching(j, inst)
  IN [i \in 1..Len(m) |->
        [value |-> IF m[i].value # "" THEN JSONParse(m[i].value) ELSE Null,
         key |-> Substring(m[i].name, Len(KeyPrefix(inst))),
         ordinal |-> JarIndex(j, m[i].name)]]

VisitsOf(j, inst) ==
  LET m == Matching(j, inst)
  IN [i \in 1..Len(m) |->
        [value |-> IF m[i].value # "" THEN JSONParse(m[i].value) ELSE Null,
         key |-> Substring(m[i].name, Len(KeyPrefix(inst))),
         ordinal |-> i]]

\* visitors handed to iterate: a visitor returns undefined up to its at-th
\* call, where it returns `value` or throws; at = 0 never does either
StopPoints == {1, 2}

NeverStops == [at |-> 0, does |-> "return", value |-> Undefined]

Visitors ==
  {NeverStops} \cup
  { [at |-> k, does |-> "return", value |-> Null] : k \in StopPoints } \cup
  { [at |-> 1, does |-> "throw", value |-> Undefined] }

\* iterate: TRUE when the visitor's at-th call happens in this traversal
Reached(j, inst, visitor) == visitor.at \in 1..Len(VisitsOf(j, inst))

\* iterate: the calls of the visitor, up to and with the one that ends the
\* traversal
VisitedAll(j, inst, visitor) == VisitsOf(j, inst)

Visited(j, inst, visitor) ==
  IF Reached(j, inst, visitor)
    THEN SubSeq(VisitsOf(j, inst), 1, visitor.at)
    ELSE VisitsOf(j, inst)

\* String.prototype.substring(start) with a string argument: the argument
\* is converted with Number(); every key prefix starts with "_lf_", which
\* converts to NaN, and substring takes NaN as 0
StartOfSubstring(keyPrefix) == 0

\* key(n): <<>> for null, else the one string it resolves to
KeyOf(j, inst, n) ==
  LET m == Matching(j, inst)
  IN IF n \in 0..(Len(m) - 1)
       THEN << Substring(m[n + 1].name, StartOfSubstring(KeyPrefix(inst))) >>
       ELSE <<>>

\* the indexes key(n) is called with
KeyIndexes == 0..MaxCookies

\* what a completion callback is called with: callback(e), callback() or
\* callback(null, result)
CallbackArgs(err, val) == [err |-> err, val |-> val]

\* the calls of the completion callback: none when no callback was passed
\* or when the function returned from inside its try block; callback(e) when
\* an error was caught; else one call with the result
CallbackCalls(callback, returnedInTry, err, val) ==
  IF ~callback THEN <<>>
  ELSE IF err # "none" THEN << CallbackArgs(err, Undefined) >>
  ELSE IF returnedInTry THEN <<>>
  ELSE << CallbackArgs("none", val) >>

\* the last driver call: its arguments (inst, key, arg, n, options, visitor,
\* callback: whether getItem or iterate got a completion callback), what the
\* driver function returned or caught (val, keys, keyAt, err), the visitor
\* calls it made (visits), the completion callback calls it made (cbCalls)
\* and the cookie names it removed (removed)
NoLast ==
  [op |-> "none", inst |-> InstP, key |-> NoString, arg |-> Null, n |-> 0,
   options |-> [name |-> NoString, storeName |-> NoString],
   visitor |-> NeverStops, callback |-> FALSE,
   val |-> Undefined, keys |-> <<>>, keyAt |-> <<>>, err |-> "none",
   visits |-> <<>>, cbCalls |-> <<>>, removed |-> <<>>]

(***************************************************************************)
(* Cookie driver operations                                                *)
(***************************************************************************)
\* setItem(key, value), awaited
SetItem(inst, key, value) ==
  LET v == IF value = Undefined THEN Null ELSE value
      name == KeyPrefix(inst) \o key
  IN /\ (name \in JarNames(jar) \/ Len(jar) < MaxCookies)
     /\ jar' = CookieSet(jar, name, JSONStringify(v), inst)
     /\ cLast' = [NoLast EXCEPT
          !.op = "setItem", !.inst = inst, !.key = key, !.arg = value,
          !.val = v]
     /\ UNCHANGED <<pmVars, regVars, scVars>>

\* removeItem(key), awaited
RemoveItem(inst, key) ==
  /\ jar' = CookieRemove(jar, KeyPrefix(inst) \o key)
  /\ cLast' = [NoLast EXCEPT
       !.op = "removeItem", !.inst = inst, !.key = key]
  /\ UNCHANGED <<pmVars, regVars, scVars>>

\* clear(), awaited
Clear(inst) ==
  /\ jar' = ClearPrefix(jar, KeyPrefix(inst))
  /\ cLast' = [NoLast EXCEPT
       !.op = "clear", !.inst = inst]
  /\ UNCHANGED <<pmVars, regVars, scVars>>

\* getItem(key, callback)
GetItem(inst, key, callback) ==
  /\ LET result == GetItemOf(jar, inst, key)
     IN cLast' = [NoLast EXCEPT
          !.op = "getItem", !.inst = inst, !.key = key,
          !.callback = callback, !.val = result,
          !.cbCalls = CallbackCalls(callback, FALSE, "none", result)]
  /\ UNCHANGED <<jar, pmVars, regVars, scVars>>

\* keys(), awaited
Keys(inst) ==
  /\ cLast' = [NoLast EXCEPT !.op = "keys", !.inst = inst,
                             !.keys = KeysOf(jar, inst)]
  /\ UNCHANGED <<jar, pmVars, regVars, scVars>>

\* key(n), awaited
Key(inst, n) ==
  /\ cLast' = [NoLast EXCEPT !.op = "key", !.inst = inst, !.n = n,
                             !.keyAt = KeyOf(jar, inst, n)]
  /\ UNCHANGED <<jar, pmVars, regVars, scVars>>

\* iterate(iterator, callback)
Iterate(inst, visitor, callback) ==
  /\ LET stopped == Reached(jar, inst, visitor)
         err == IF stopped /\ visitor.does = "throw" THEN "thrown"
                                                      ELSE "none"
         result == IF stopped /\ visitor.does = "return" THEN visitor.value
                                                          ELSE Undefined
     IN cLast' = [NoLast EXCEPT
          !.op = "iterate", !.inst = inst, !.visitor = visitor,
          !.callback = callback, !.val = result, !.err = err,
          !.visits = Visited(jar, inst, visitor),
          !.cbCalls = CallbackCalls(callback, stopped, err, Undefined)]
  /\ UNCHANGED <<jar, pmVars, regVars, scVars>>

\* dropInstance: the prefix handed to _clear; without a store name the bare
\* name prefix, which every store-name variant under that name starts with
DropKeyPrefixPerStore(opts) == GetKeyPrefix(opts)

DropKeyPrefix(opts) ==
  IF opts.storeName = NoString
    THEN <<"_", "l", "f", "_">> \o opts.name \o <<"_", "_">>
    ELSE GetKeyPrefix(opts)

\* the names of the cookies _clear(keyPrefix) removes, in jar order
ClearedNames(j, keyPrefix) ==
  LET Hit(c) == StartsWith(c.name, keyPrefix)
      hits == SelectSeq(j, Hit)
  IN [i \in 1..Len(hits) |-> hits[i].name]

\* dropInstance(options), awaited, called on instance inst; cLast.key
\* records the prefix that was cleared
DropInstance(inst, options) ==
  LET opts == IF options.name = NoString
                THEN [name |-> inst.name,
                      storeName |-> IF options.storeName # NoString
                                      THEN options.storeName
                                      ELSE inst.storeName]
                ELSE options
      keyPrefix == DropKeyPrefix(opts)
  IN /\ jar' = ClearPrefix(jar, keyPrefix)
     /\ cLast' = [NoLast EXCEPT !.op = "dropInstance", !.inst = inst,
                                !.options = options, !.key = keyPrefix,
                                !.removed = ClearedNames(jar, keyPrefix)]
     /\ UNCHANGED <<pmVars, regVars, scVars>>

InitCookieVars ==
  /\ jar = <<>>
  /\ cLast = NoLast

(***************************************************************************)
(* PermissionManager (src/PermissionManager.js, lines 143-285)             *)
(***************************************************************************)
\* manager instances and the relying origin each was constructed with
Managers == {"mA", "mB"}

OriginOfShared(m) == "https://a.example"

OriginOf(m) == IF m = "mA" THEN "https://a.example" ELSE "https://b.example"

Origins == { OriginOf(m) : m \in Managers }

\* permission names that descriptors carry
Names == {"storageAccess", "constructor"}

\* names the mediator registers through _registerPermission
RegisteredNames == {"storageAccess"}

\* property names every JavaScript array inherits from Array.prototype with
\* a truthy value; this.registry is created as an array ([])
ArrayPrototypeNames == {"constructor"}

\* call slots: calls of one page that may be in flight together
Slots == {1, 2}

VALID_PERMISSION_STATES == {"granted", "denied", "prompt"}

\* what the externally supplied consent function may resolve to: a status
\* object with a valid state, one with another state, or no object at all
ConsentAnswers == VALID_PERMISSION_STATES \cup {"invalid", "notObject"}

\* managers constructed without a consent function (`{request = deny} = {}`)
DefaultConsentManagers == {"mB"}

\* deny(): the default consent function resolves to {state: 'denied'}
denyGranting == "granted"

deny == "denied"

\* what `this._request(permissionDesc)` of manager m may resolve to
RequestAnswers(m) ==
  IF m \in DefaultConsentManagers THEN {deny} ELSE ConsentAnswers

\* how a localforage getItem/setItem of the permission store settles:
\* resolved, rejected with 'No available storage method found.', or
\* rejected with another error
StorageOutcomes == {"ok", "noStorage", "otherError"}

IdleCall ==
  [pc |-> "idle", op |-> "none", mgr |-> "mA", name |-> "storageAccess",
   known |-> FALSE, status |-> "none", asked |-> FALSE, answer |-> "none",
   wrote |-> FALSE, ret |-> "none", err |-> "none", revoked |-> "no"]

\* this.registry[permissionDesc.name]: an own property set by
\* _registerPermission, else whatever the array inherits under that name
RegistryLookup(reg, name) == name \in reg \/ name \in ArrayPrototypeNames

\* _validatePermissionDescriptor for an object descriptor with a string name:
\* TRUE when it does not throw
ValidDescriptor(reg, name) == RegistryLookup(reg, name)

\* _validatePermissionStatus: TRUE when it does not throw
ValidStatusAny(answer) == TRUE

ValidStatus(answer) == answer \in VALID_PERMISSION_STATES

\* _validatePermissionStatus: what it throws for a status it rejects
StatusError(answer) ==
  IF answer = "notObject" THEN "status must be an object"
                          ELSE "Invalid permission state"

\* the status query resolves to for a stored value: the value when truthy,
\* else the default {state: 'prompt'}
StatusOf(stored) == IF stored # "absent" THEN stored ELSE "prompt"

\* request: `if(status.state === 'prompt')`, the consent function is asked
NeedsConsentAlways(status) == TRUE

NeedsConsent(status) == status = "prompt"

\* request: the status persisted for a consent answer
StoreStatusAsReturned(answer) == answer

StoreStatus(answer) == IF answer = "denied" THEN "prompt" ELSE answer

\* request: `return status`, the consent function's own answer
RequestResultStored(answer) == IF answer = "denied" THEN "prompt" ELSE answer

RequestResult(answer) == answer

\* revoke: the status it force-writes
RevokeStatusKept == "granted"

RevokeStatus == "prompt"

Finish(c, ret, err) == [c EXCEPT !.pc = "done", !.ret = ret, !.err = err]

\* _registerPermission(permissionName)
RegisterPermissionShared(m, n) ==
  /\ registry' = [x \in Managers |-> registry[x] \cup {n}]
  /\ UNCHANGED <<store, calls, cookieVars, regVars, scVars>>

RegisterPermission(m, n) ==
  /\ registry' = [registry EXCEPT ![m] = @ \cup {n}]
  /\ UNCHANGED <<store, calls, cookieVars, regVars, scVars>>

\* history of a request that waits for its consent answer or its write:
\* the revoke in slot s, for the same descriptor on the same manager, has
\* completed since the request asked for consent
NoteRevoke(cs, s) ==
  [t \in Slots |->
     IF /\ t # s /\ cs[t].op = "request"
        /\ cs[t].mgr = cs[s].mgr /\ cs[t].name = cs[s].name
        /\ cs[t].pc \in {"consent", "write"}
       THEN [cs[t] EXCEPT !.revoked = "completed"]
       ELSE cs[t]]

\* query / request / revoke invoked: the synchronous part up to the first
\* await (descriptor validation, then the first storage call is issued)
Invoke(s, op, m, n) ==
  /\ calls[s].pc = "idle"
  /\ LET c == [IdleCall EXCEPT !.op = op, !.mgr = m, !.name = n,
                               !.known = (n \in registry[m])]
     IN calls' = [calls EXCEPT ![s] =
          IF ~ValidDescriptor(registry[m], n)
            THEN Finish(c, "none", "Unknown permission")
            ELSE [c EXCEPT !.pc = IF op = "revoke" THEN "revWrite"
                                                   ELSE "read"]]
  /\ UNCHANGED <<registry, store, cookieVars, regVars, scVars>>

\* query: `await this.permissions.getItem(name)` settles.  query is also the
\* first step of request and the last step of revoke.
ReadSettlesSingleFlight(s, outcome) ==
  LET c == calls[s]
      status == StatusOf(store[OriginOf(c.mgr)][c.name])
      prompting == \E t \in Slots \ {s} :
                     /\ calls[t].mgr = c.mgr /\ calls[t].name = c.name
                     /\ calls[t].pc \in {"consent", "write"}
  IN /\ c.pc = "read"
     /\ LET next == [calls EXCEPT ![s] =
              IF outcome # "ok"
                THEN Finish(c, "none", outcome)
              ELSE IF c.op = "request" /\ NeedsConsent(status) /\ ~prompting
                THEN [c EXCEPT !.pc = "consent", !.status = status,
                               !.asked = TRUE]
              ELSE Finish([c EXCEPT !.status = status], status, "none")]
        IN calls' = IF c.op = "revoke" /\ outcome = "ok"
                      THEN NoteRevoke(next, s)
                      ELSE next
     /\ UNCHANGED <<registry, store, cookieVars, regVars, scVars>>

ReadSettles(s, outcome) ==
  LET c == calls[s]
      status == StatusOf(store[OriginOf(c.mgr)][c.name])
  IN /\ c.pc = "read"
     /\ LET next == [calls EXCEPT ![s] =
              IF outcome # "ok"
                THEN Finish(c, "none", outcome)
              ELSE IF c.op = "request" /\ NeedsConsent(status)
                THEN [c EXCEPT !.pc = "consent", !.status = status,
                               !.asked = TRUE]
              ELSE Finish([c EXCEPT !.status = status], status, "none")]
        IN calls' = IF c.op = "revoke" /\ outcome = "ok"
                      THEN NoteRevoke(next, s)
                      ELSE next
     /\ UNCHANGED <<registry, store, cookieVars, regVars, scVars>>

\* request: `await this._request(permissionDesc)` settles and the status is
\* validated; setItem is issued
ConsentSettlesAsksAgain(s, answer) ==
  LET c == calls[s]
  IN /\ c.pc = "consent"
     /\ answer \in RequestAnswers(c.mgr)
     /\ calls' = [calls EXCEPT ![s] =
          IF ~ValidStatus(answer)
            THEN Finish([c EXCEPT !.answer = answer], "none",
                        StatusError(answer))
          ELSE IF answer = "prompt"
            THEN [c EXCEPT !.pc = "read", !.answer = answer]
            ELSE [c EXCEPT !.pc = "write", !.answer = answer]]
     /\ UNCHANGED <<registry, store, cookieVars, regVars, scVars>>

ConsentSettles(s, answer) ==
  LET c == calls[s]
  IN /\ c.pc = "consent"
     /\ answer \in RequestAnswers(c.mgr)
     /\ calls' = [calls EXCEPT ![s] =
          IF ~ValidStatus(answer)
            THEN Finish([c EXCEPT !.answer = answer], "none",
                        StatusError(answer))
            ELSE [c EXCEPT !.pc = "write", !.answer = answer]]
     /\ UNCHANGED <<registry, store, cookieVars, regVars, scVars>>

\* request: `await this.permissions.setItem(name, storeStatus)` settles
WriteSettles(s, outcome) ==
  LET c == calls[s]
      o == OriginOf(c.mgr)
  IN /\ c.pc = "write"
     /\ IF outcome = "ok"
          THEN /\ store' = [store EXCEPT ![o][c.name] = StoreStatus(c.answer)]
               /\ calls' = [calls EXCEPT ![s] =
                    Finish([c EXCEPT !.wrote = TRUE],
                           RequestResult(c.answer), "none")]
          ELSE /\ store' = store
               /\ calls' = [calls EXCEPT ![s] = Finish(c, "none", outcome)]
     /\ UNCHANGED <<registry, cookieVars, regVars, scVars>>

\* revoke: `await this.permissions.setItem(name, {state: 'prompt'})` settles,
\* then `this.query(permissionDesc)` is called
RevokeWriteSettles(s, outcome) ==
  LET c == calls[s]
      o == OriginOf(c.mgr)
  IN /\ c.pc = "revWrite"
     /\ IF outcome = "ok"
          THEN /\ store' = [store EXCEPT ![o][c.name] = RevokeStatus]
               /\ calls' = [calls EXCEPT ![s] =
                    IF ~ValidDescriptor(registry[c.mgr], c.name)
                      THEN Finish([c EXCEPT !.wrote = TRUE], "none",
                                  "Unknown permission")
                      ELSE [c EXCEPT !.pc = "read", !.wrote = TRUE]]
          ELSE /\ store' = store
               /\ calls' = [calls EXCEPT ![s] = Finish(c, "none", outcome)]
     /\ UNCHANGED <<registry, cookieVars, regVars, scVars>>

\* the caller takes the settled result; the slot is free for another call
Return(s) ==
  /\ calls[s].pc = "done"
  /\ calls' = [calls EXCEPT ![s] = IdleCall]
  /\ UNCHANGED <<registry, store, cookieVars, regVars, scVars>>

InitPMVars ==
  /\ registry = [m \in Managers |-> {}]
  /\ store = [o \in Origins |-> [n \in Names |-> "absent"]]
  /\ calls = [s \in Slots |-> IdleCall]

(***************************************************************************)
(* WebRequestHandlersService (src/lib/WebRequestHandlersService.js)        *)
(***************************************************************************)
RequestTypes == {"credentialHandler"}

\* service instances and the relying origin each was constructed with
Services == {"sA", "sB"}

RelyingOrigin(svc) ==
  IF svc = "sA" THEN "https://a.example" ELSE "https://b.example"

RegOrigins == { RelyingOrigin(svc) : svc \in Services }

\* a URL as utils.parseUrl splits it
Url(o, p, q) == [origin |-> o, path |-> p, query |-> q]

NoUrl == Url("", "", "")

\* URLs the callers pass
InputUrls ==
  { Url("https://a.example", "/g", ""),
    Url("https://a.example", "/h", ""),
    Url("https://a.example", "/h", "?q=1"),
    Url("https://b.example", "/h", "") }

\* parsed.origin + parsed.pathname
HandlerUrl(parsed) == Url(parsed.origin, parsed.path, "")

\* _setRegistration: parsed.origin, the origin whose index entry and handler
\* store the registration is written to
ParsedOriginOfFirst(parsed) == "https://a.example"

ParsedOrigin(parsed) == parsed.origin

\* _normalizeUrl(url, origin): TRUE when it does not throw
SameOriginAny(url, origin) == TRUE

SameOrigin(url, origin) == url.origin = origin

\* _normalizeUrl(url, origin): its result when it does not throw
NormalizeUrl(url, origin) == HandlerUrl(url)

NoConfig == [requestType |-> "", origin |-> ""]

\* _getHandlerStorageConfig(requestType, origin): the config that names the
\* handler store of (requestType, origin)
GetHandlerStorageConfigNone(t, o) == NoConfig

GetHandlerStorageConfig(t, o) == [requestType |-> t, origin |-> o]

\* the order in which a handler store enumerates its keys
KeyOrder ==
  << Url("https://a.example", "/g", ""),
     Url("https://a.example", "/h", ""),
     Url("https://b.example", "/h", "") >>

\* storage.iterate((value, url) => urls.push(url)) on the store a config
\* names: every key of that store in enumeration order
UrlsOfFirst(h, cfg) ==
  LET InStore(u) == u \in h[cfg.requestType][cfg.origin]
      urls == SelectSeq(KeyOrder, InStore)
  IN IF urls = <<>> THEN urls ELSE <<urls[1]>>

UrlsOf(h, cfg) ==
  LET InStore(u) == u \in h[cfg.requestType][cfg.origin]
  IN SelectSeq(KeyOrder, InStore)

\* getItem(url) === true on the handler store of (t, o)
HasItem(h, t, o, url) == url \in h[t][o]

\* call slots: registry calls that may be in flight together
RSlots == {1, 2}

\* how a storage call or the work attached through waitUntil settles
Settlements == {"ok", "error"}

\* the operations of a service instance that take a URL
ServiceOps == {"register", "unregister", "getRegistration", "hasRegistration"}

\* url: the caller's argument; reg: the normalized URL the call works on;
\* o: the origin whose stores the call addresses; existing: what
\* getRegistration resolved to in register (`existing`) and unregister
\* (`registration`); emitted: the 'unregister' notification was emitted;
\* pending / acc: the reads _getAllRegistrations still waits for and its
\* `registrations` array; quiet: no other registry call was in flight when
\* this _getAllRegistrations was invoked and none was invoked since
IdleRCall ==
  [pc |-> "idle", op |-> "none", svc |-> "sA", t |-> "credentialHandler",
   url |-> NoUrl, reg |-> NoUrl, o |-> "", existing |-> NoUrl,
   emitted |-> FALSE,
   pending |-> {}, acc |-> <<>>, quiet |-> FALSE,
   retUrl |-> NoUrl, retBool |-> "none", retList |-> <<>>, err |-> "none"]

RFinish(c, err) == [c EXCEPT !.pc = "done", !.err = err]

InFlight(c) == c.pc \notin {"idle", "done"}

\* slot s gets call record c; a _getAllRegistrations of another slot has
\* no longer run alone
Invoked(rc, s, c) ==
  [x \in RSlots |-> IF x = s THEN c ELSE [rc[x] EXCEPT !.quiet = FALSE]]

\* register: the result when getRegistration found an existing registration
RegisterExistingAsPassed(url, existing) == url

RegisterExisting(url, existing) == existing

\* getRegistration: the normalized URL when hasRegistration is true, else
\* null
GetRegistrationResultAlways(has, url) == url

GetRegistrationResult(has, url) == IF has THEN url ELSE NoUrl

\* unregister: the key passed to removeItem
RemovedKeyAsPassed(c) == c.url

RemovedKey(c) == c.existing

\* emit(event): resolves or rejects as the work attached through waitUntil
AwaitedWorkIgnored(r) == "ok"

AwaitedWork(r) == r

\* register / unregister / getRegistration / hasRegistration invoked: the
\* synchronous part, _normalizeUrl and the getItem that hasRegistration issues
InvokeService(s, op, svc, t, u) ==
  /\ rcalls[s].pc = "idle"
  /\ LET relyingOrigin == RelyingOrigin(svc)
         c == [IdleRCall EXCEPT !.op = op, !.svc = svc, !.t = t, !.url = u,
                                !.o = relyingOrigin]
     IN rcalls' = Invoked(rcalls, s,
          IF ~SameOrigin(u, relyingOrigin)
            THEN RFinish(c, "origin")
            ELSE [c EXCEPT !.pc = "getItem",
                           !.reg = NormalizeUrl(u, relyingOrigin)])
  /\ UNCHANGED <<originIndex, handlers, cookieVars, pmVars, scVars>>

\* the static _setRegistration(requestType, url) invoked by the mediator:
\* the URL is parsed and originStorage.setItem is issued
InvokeSetRegistration(s, t, u) ==
  /\ rcalls[s].pc = "idle"
  /\ rcalls' = Invoked(rcalls, s,
       [IdleRCall EXCEPT !.op = "_setRegistration", !.t = t, !.url = u,
                         !.o = ParsedOrigin(u), !.reg = HandlerUrl(u),
                         !.pc = "setOrigin"])
  /\ UNCHANGED <<originIndex, handlers, cookieVars, pmVars, scVars>>

\* the static _getAllRegistrations(requestType) invoked: originStorage.iterate
\* is issued
InvokeGetAll(s, t) ==
  /\ rcalls[s].pc = "idle"
  /\ rcalls' = Invoked(rcalls, s,
       [IdleRCall EXCEPT !.op = "_getAllRegistrations", !.t = t,
                         !.pc = "iterateIndex",
                         !.quiet = \A x \in RSlots : ~InFlight(rcalls[x])])
  /\ UNCHANGED <<originIndex, handlers, cookieVars, pmVars, scVars>>

\* hasRegistration: handlerStorage.getItem(url) settles; the callers
\* getRegistration, register and unregister continue on its result
GetItemSettles(s, r) ==
  LET c == rcalls[s]
      has == HasItem(handlers, c.t, c.o, c.reg)
      registration == GetRegistrationResult(has, c.reg)
  IN /\ c.pc = "getItem"
     /\ rcalls' = [rcalls EXCEPT ![s] =
          IF r # "ok" THEN RFinish(c, "storage")
          ELSE IF c.op = "hasRegistration"
            THEN RFinish([c EXCEPT !.retBool = IF has THEN "true"
                                                      ELSE "false"], "none")
          ELSE IF c.op = "getRegistration"
            THEN RFinish([c EXCEPT !.retUrl = registration], "none")
          ELSE IF c.op = "register"
            THEN IF registration # NoUrl
                   THEN RFinish([c EXCEPT !.existing = registration,
                                          !.retUrl = RegisterExisting(
                                                       c.url, registration)],
                                "none")
                   ELSE [c EXCEPT !.pc = "setOrigin",
                                  !.o = ParsedOrigin(c.reg),
                                  !.reg = HandlerUrl(c.reg)]
          ELSE IF registration = NoUrl
            THEN RFinish([c EXCEPT !.retBool = "false"], "none")
            ELSE [c EXCEPT !.pc = "waitUntil", !.existing = registration,
                           !.emitted = TRUE]]
     /\ UNCHANGED <<originIndex, handlers, cookieVars, pmVars, scVars>>

\* _setRegistration: originStorage.setItem(parsed.origin, config) settles
SetOriginSettlesReplacing(s, r) ==
  LET c == rcalls[s]
  IN /\ c.pc = "setOrigin"
     /\ IF r = "ok"
          THEN /\ originIndex' = [originIndex EXCEPT ![c.t] =
                    [o \in RegOrigins |->
                       IF o = c.o THEN GetHandlerStorageConfig(c.t, c.o)
                                  ELSE NoConfig]]
               /\ rcalls' = [rcalls EXCEPT ![s].pc = "setHandler"]
          ELSE /\ originIndex' = originIndex
               /\ rcalls' = [rcalls EXCEPT ![s] = RFinish(c, "storage")]
     /\ UNCHANGED <<handlers, cookieVars, pmVars, scVars>>

SetOriginSettles(s, r) ==
  LET c == rcalls[s]
  IN /\ c.pc = "setOrigin"
     /\ IF r = "ok"
          THEN /\ originIndex' = [originIndex EXCEPT ![c.t][c.o] =
                                    GetHandlerStorageConfig(c.t, c.o)]
               /\ rcalls' = [rcalls EXCEPT ![s].pc = "setHandler"]
          ELSE /\ originIndex' = originIndex
               /\ rcalls' = [rcalls EXCEPT ![s] = RFinish(c, "storage")]
     /\ UNCHANGED <<handlers, cookieVars, pmVars, scVars>>

\* _setRegistration: handlerStorage.setItem(handlerUrl, true) settles
SetHandlerSettles(s, r) ==
  LET c == rcalls[s]
  IN /\ c.pc = "setHandler"
     /\ IF r = "ok"
          THEN /\ handlers' = [handlers EXCEPT ![c.t][c.o] = @ \cup {c.reg}]
               /\ rcalls' = [rcalls EXCEPT ![s] =
                    RFinish([c EXCEPT !.retUrl = c.reg], "none")]
          ELSE /\ handlers' = handlers
               /\ rcalls' = [rcalls EXCEPT ![s] = RFinish(c, "storage")]
     /\ UNCHANGED <<originIndex, cookieVars, pmVars, scVars>>

\* unregister: `await this.emit(event)` settles, that is the work a listener
\* attached through waitUntil (or nothing, when none was attached)
WaitUntilSettles(s, r) ==
  LET c == rcalls[s]
  IN /\ c.pc = "waitUntil"
     /\ rcalls' = [rcalls EXCEPT ![s] =
          IF AwaitedWork(r) = "ok" THEN [c EXCEPT !.pc = "removeItem"]
                                   ELSE RFinish(c, "rejected")]
     /\ UNCHANGED <<originIndex, handlers, cookieVars, pmVars, scVars>>

\* unregister: handlerStorage.removeItem(registration) settles
RemoveItemSettles(s, r) ==
  LET c == rcalls[s]
  IN /\ c.pc = "removeItem"
     /\ IF r = "ok"
          THEN /\ handlers' = [handlers EXCEPT ![c.t][c.o] =
                                 @ \ {RemovedKey(c)}]
               /\ rcalls' = [rcalls EXCEPT ![s] =
                    RFinish([c EXCEPT !.retBool = "true"], "none")]
          ELSE /\ handlers' = handlers
               /\ rcalls' = [rcalls EXCEPT ![s] = RFinish(c, "storage")]
     /\ UNCHANGED <<originIndex, cookieVars, pmVars, scVars>>

\* the configs originStorage.iterate hands to the callback: one per origin
\* in the index
IndexConfigs(idx, t) ==
  { idx[t][o] : o \in { x \in RegOrigins : idx[t][x] # NoConfig } }

\* _getAllRegistrations: originStorage.iterate settles; its callback has
\* issued one storage.iterate per config, Promise.all waits for them
IterateIndexSettles(s, r) ==
  LET c == rcalls[s]
      configs == IndexConfigs(originIndex, c.t)
  IN /\ c.pc = "iterateIndex"
     /\ rcalls' = [rcalls EXCEPT ![s] =
          IF r # "ok" THEN RFinish(c, "storage")
          ELSE IF configs = {} THEN RFinish(c, "none")
          ELSE [c EXCEPT !.pc = "fanOut", !.pending = configs]]
     /\ UNCHANGED <<originIndex, handlers, cookieVars, pmVars, scVars>>

\* registrations.push(...urls): the URLs one origin's read collected are
\* appended in one call
PushUrlsAroundEarlier(registrations, urls) ==
  IF urls = <<>> THEN registrations
                 ELSE <<Head(urls)>> \o registrations \o Tail(urls)

PushUrls(registrations, urls) == registrations \o urls

\* _getAllRegistrations: the call record after the storage.iterate of one
\* origin settled; Promise.all resolves with the last read and rejects with
\* the first failure
FanOutStepSkipFailed(c, h, cfg, r) ==
  LET acc == IF r = "ok" THEN PushUrls(c.acc, UrlsOf(h, cfg)) ELSE c.acc
      pending == c.pending \ {cfg}
  IN IF pending = {}
       THEN RFinish([c EXCEPT !.acc = acc, !.pending = pending,
                              !.retList = acc], "none")
       ELSE [c EXCEPT !.acc = acc, !.pending = pending]

FanOutStep(c, h, cfg, r) ==
  LET acc == PushUrls(c.acc, UrlsOf(h, cfg))
      pending == c.pending \ {cfg}
  IN IF r # "ok" THEN RFinish(c, "storage")
     ELSE IF pending = {}
       THEN RFinish([c EXCEPT !.acc = acc, !.pending = pending,
                              !.retList = acc], "none")
       ELSE [c EXCEPT !.acc = acc, !.pending = pending]

\* _getAllRegistrations: the storage.iterate of one origin's handler store
\* settles
OriginReadSettles(s, cfg, r) ==
  LET c == rcalls[s]
  IN /\ c.pc = "fanOut"
     /\ cfg \in c.pending
     /\ rcalls' = [rcalls EXCEPT ![s] = FanOutStep(c, handlers, cfg, r)]
     /\ UNCHANGED <<originIndex, handlers, cookieVars, pmVars, scVars>>

\* the caller takes the settled result; the slot is free for another call
RReturn(s) ==
  /\ rcalls[s].pc = "done"
  /\ rcalls' = [rcalls EXCEPT ![s] = IdleRCall]
  /\ UNCHANGED <<originIndex, handlers, cookieVars, pmVars, scVars>>

InitRegVars ==
  /\ originIndex = [t \in RequestTypes |-> [o \in RegOrigins |-> NoConfig]]
  /\ handlers = [t \in RequestTypes |-> [o \in RegOrigins |-> {}]]
  /\ rcalls = [s \in RSlots |-> IdleRCall]

(***************************************************************************)
(* SimpleContainerService (src/SimpleContainerService.js)                  *)
(***************************************************************************)
\* the relying origin the container service was constructed with
SCRelyingOrigin == "https://a.example"

\* the url arguments: a handler URL of the relying origin and one of
\* another origin
SCUrls == { Url("https://a.example", "/h", ""),
            Url("https://b.example", "/h", "") }

\* key and item arguments; validateKey / validateItem (injected by the
\* mediator) throw for the "bad" ones
SCKeys == {"k"}
SCItems == {"item"}
KeyArgs == SCKeys \cup {"badKey"}
ItemArgs == SCItems \cup {"badItem"}

\* getItem of an absent key resolves to null
NoItem == "null"

ValidateKey(key) == key \in SCKeys

ValidateItem(item) == item \in SCItems

\* utils.isValidOrigin(url, relyingOrigin): TRUE when it does not throw
IsValidOriginAny(url, origin) == TRUE

IsValidOrigin(url, origin) == url.origin = origin

\* _checkPermission: TRUE when it does not throw 'Permission denied.'
PermissionGrantedAlways(status) == TRUE

PermissionGranted(status) == status = "granted"

\* the statuses the permission manager persists (request and revoke)
PersistedStatuses == { StoreStatus(a) : a \in VALID_PERMISSION_STATES }

SCSlots == {1, 2}

\* operations by the arguments they take
UrlOps == {"keys", "clear"}
KeyOps == {"get", "has", "delete"}

IdleSCCall ==
  [pc |-> "idle", op |-> "none", url |-> NoUrl, key |-> "", item |-> "",
   retItem |-> "none", retBool |-> "none", retKeys |-> {}, err |-> "none"]

SCFinish(c, err) == [c EXCEPT !.pc = "done", !.err = err]

\* storage.keys() of the store of a url
ItemKeys(it, url) == { k \in SCKeys : it[url][k] # NoItem }

\* the permission manager persists a status for the required permission
\* (the write of a request or of a revoke)
PermissionPersisted(status) ==
  /\ scPerm' = status
  /\ UNCHANGED <<items, scWrites, sccalls, cookieVars, pmVars, regVars>>

\* get / keys / has / set / delete / clear invoked: each starts with
\* _checkPermission, which issues permissionManager.query
SCInvoke(s, op, url, key, item) ==
  /\ sccalls[s].pc = "idle"
  /\ sccalls' = [sccalls EXCEPT ![s] =
       [IdleSCCall EXCEPT !.pc = "query", !.op = op, !.url = url,
                          !.key = key, !.item = item]]
  /\ UNCHANGED <<scPerm, items, scWrites, cookieVars, pmVars, regVars>>

\* the call record after the steps between the permission check and the
\* storage call: validateKey, validateItem, the origin check of _getStorage
\* and the storage call that is issued; set does not await its setItem
AfterPermission(c) ==
  IF c.op \in KeyOps \cup {"set"} /\ ~ValidateKey(c.key)
    THEN SCFinish(c, "invalid key")
  ELSE IF c.op = "set" /\ ~ValidateItem(c.item)
    THEN SCFinish(c, "invalid item")
  ELSE IF ~IsValidOrigin(c.url, SCRelyingOrigin)
    THEN SCFinish(c, "origin")
  ELSE IF c.op = "set" THEN SCFinish(c, "none")
  ELSE IF c.op = "keys" THEN [c EXCEPT !.pc = "keys"]
  ELSE IF c.op = "clear" THEN [c EXCEPT !.pc = "clear"]
  ELSE [c EXCEPT !.pc = "getItem"]

\* _checkPermission: `await this._permissionManager.query(...)` settles
CheckPermissionSettles(s, r) ==
  LET c == sccalls[s]
      next == IF r # "ok" THEN SCFinish(c, "query")
              ELSE IF ~PermissionGranted(scPerm)
                THEN SCFinish(c, "Permission denied.")
              ELSE AfterPermission(c)
  IN /\ c.pc = "query"
     /\ sccalls' = [sccalls EXCEPT ![s] = next]
     /\ scWrites' = IF next.pc = "done" /\ next.err = "none" /\ c.op = "set"
                      THEN scWrites \cup
                             {[url |-> c.url, key |-> c.key, item |-> c.item]}
                      ELSE scWrites
     /\ UNCHANGED <<scPerm, items, cookieVars, pmVars, regVars>>

\* get: storage.getItem(key) settles; has compares with null; delete goes on
\* to _getStorage and removeItem when has was true
GetItemResolves(s, r) ==
  LET c == sccalls[s]
      item == items[c.url][c.key]
  IN /\ c.pc = "getItem"
     /\ sccalls' = [sccalls EXCEPT ![s] =
          IF r # "ok" THEN SCFinish(c, "storage")
          ELSE IF c.op = "get"
            THEN SCFinish([c EXCEPT !.retItem = item], "none")
          ELSE IF c.op = "has"
            THEN SCFinish([c EXCEPT !.retBool = IF item # NoItem
                                                  THEN "true" ELSE "false"],
                          "none")
          ELSE IF item = NoItem
            THEN SCFinish([c EXCEPT !.retBool = "false"], "none")
          ELSE IF ~IsValidOrigin(c.url, SCRelyingOrigin)
            THEN SCFinish(c, "origin")
          ELSE [c EXCEPT !.pc = "removeItem"]]
     /\ UNCHANGED <<scPerm, items, scWrites, cookieVars, pmVars, regVars>>

\* delete: storage.removeItem(key) settles
RemoveItemResolves(s, r) ==
  LET c == sccalls[s]
  IN /\ c.pc = "removeItem"
     /\ IF r = "ok"
          THEN /\ items' = [items EXCEPT ![c.url][c.key] = NoItem]
               /\ sccalls' = [sccalls EXCEPT ![s] =
                    SCFinish([c EXCEPT !.retBool = "true"], "none")]
          ELSE /\ items' = items
               /\ sccalls' = [sccalls EXCEPT ![s] = SCFinish(c, "storage")]
     /\ UNCHANGED <<scPerm, scWrites, cookieVars, pmVars, regVars>>

\* keys: storage.keys() settles
KeysResolves(s, r) ==
  LET c == sccalls[s]
  IN /\ c.pc = "keys"
     /\ sccalls' = [sccalls EXCEPT ![s] =
          IF r = "ok"
            THEN SCFinish([c EXCEPT !.retKeys = ItemKeys(items, c.url)],
                          "none")
            ELSE SCFinish(c, "storage")]
     /\ UNCHANGED <<scPerm, items, scWrites, cookieVars, pmVars, regVars>>

\* clear: storage.clear() settles
ClearResolves(s, r) ==
  LET c == sccalls[s]
  IN /\ c.pc = "clear"
     /\ IF r = "ok"
          THEN /\ items' = [items EXCEPT ![c.url] = [k \in SCKeys |-> NoItem]]
               /\ sccalls' = [sccalls EXCEPT ![s] = SCFinish(c, "none")]
          ELSE /\ items' = items
               /\ sccalls' = [sccalls EXCEPT ![s] = SCFinish(c, "storage")]
     /\ UNCHANGED <<scPerm, scWrites, cookieVars, pmVars, regVars>>

\* set: the storage.setItem(key, item) it did not await settles; nobody
\* observes a failure
SetItemResolves(w, r) ==
  /\ w \in scWrites
  /\ scWrites' = scWrites \ {w}
  /\ items' = IF r = "ok" THEN [items EXCEPT ![w.url][w.key] = w.item]
                          ELSE items
  /\ UNCHANGED <<scPerm, sccalls, cookieVars, pmVars, regVars>>

\* the caller takes the settled result; the slot is free for another call
SCReturn(s) ==
  /\ sccalls[s].pc = "done"
  /\ sccalls' = [sccalls EXCEPT ![s] = IdleSCCall]
  /\ UNCHANGED <<scPerm, items, scWrites, cookieVars, pmVars, regVars>>

InitSCVars ==
  /\ scPerm = "prompt"
  /\ items = [u \in SCUrls |-> [k \in SCKeys |-> NoItem]]
  /\ scWrites = {}
  /\ sccalls = [s \in SCSlots |-> IdleSCCall]

(***************************************************************************)
(* Specifications                                                          *)
(***************************************************************************)
InitCookie == InitCookieVars /\ InitPMVars /\ InitRegVars /\ InitSCVars

NextCookie ==
  \/ \E i \in Instances, k \in CookieKeys, v \in JSValues : SetItem(i, k, v)
  \/ \E i \in Instances, k \in CookieKeys : RemoveItem(i, k)
  \/ \E i \in Instances : Clear(i)
  \/ \E i \in Instances, k \in CookieKeys, cb \in BOOLEAN : GetItem(i, k, cb)
  \/ \E i \in Instances : Keys(i)
  \/ \E i \in Instances, n \in KeyIndexes : Key(i, n)
  \/ \E i \in Instances, v \in Visitors, cb \in BOOLEAN : Iterate(i, v, cb)
  \/ \E i \in Instances, o \in DropOptions : DropInstance(i, o)

SpecCookie == InitCookie /\ [][NextCookie]_vars

InitPM == InitCookieVars /\ InitPMVars /\ InitRegVars /\ InitSCVars

NextPM ==
  \/ \E m \in Managers, n \in RegisteredNames : RegisterPermission(m, n)
  \/ \E s \in Slots, op \in {"query", "request", "revoke"},
        m \in Managers, n \in Names : Invoke(s, op, m, n)
  \/ \E s \in Slots, r \in StorageOutcomes : ReadSettles(s, r)
  \/ \E s \in Slots, a \in ConsentAnswers : ConsentSettles(s, a)
  \/ \E s \in Slots, r \in StorageOutcomes : WriteSettles(s, r)
  \/ \E s \in Slots, r \in StorageOutcomes : RevokeWriteSettles(s, r)
  \/ \E s \in Slots : Return(s)

SpecPM == InitPM /\ [][NextPM]_vars

InitReg == InitCookieVars /\ InitPMVars /\ InitRegVars /\ InitSCVars

NextReg ==
  \/ \E s \in RSlots, op \in ServiceOps, svc \in Services,
        t \in RequestTypes, u \in InputUrls : InvokeService(s, op, svc, t, u)
  \/ \E s \in RSlots, t \in RequestTypes, u \in InputUrls :
       InvokeSetRegistration(s, t, u)
  \/ \E s \in RSlots, t \in RequestTypes : InvokeGetAll(s, t)
  \/ \E s \in RSlots, r \in Settlements : GetItemSettles(s, r)
  \/ \E s \in RSlots, r \in Settlements : SetOriginSettles(s, r)
  \/ \E s \in RSlots, r \in Settlements : SetHandlerSettles(s, r)
  \/ \E s \in RSlots, r \in Settlements : WaitUntilSettles(s, r)
  \/ \E s \in RSlots, r \in Settlements : RemoveItemSettles(s, r)
  \/ \E s \in RSlots, r \in Settlements : IterateIndexSettles(s, r)
  \/ \E s \in RSlots, r \in Settlements :
       \E cfg \in rcalls[s].pending : OriginReadSettles(s, cfg, r)
  \/ \E s \in RSlots : RReturn(s)

SpecReg == InitReg /\ [][NextReg]_vars

InitSC == InitCookieVars /\ InitPMVars /\ InitRegVars /\ InitSCVars

NextSC ==
  \/ \E status \in PersistedStatuses : PermissionPersisted(status)
  \/ \E s \in SCSlots, op \in UrlOps, u \in SCUrls : SCInvoke(s, op, u, "", "")
  \/ \E s \in SCSlots, op \in KeyOps, u \in SCUrls, k \in KeyArgs :
       SCInvoke(s, op, u, k, "")
  \/ \E s \in SCSlots, u \in SCUrls, k \in KeyArgs, i \in ItemArgs :
       SCInvoke(s, "set", u, k, i)
  \/ \E s \in SCSlots, r \in Settlements : CheckPermissionSettles(s, r)
  \/ \E s \in SCSlots, r \in Settlements : GetItemResolves(s, r)
  \/ \E s \in SCSlots, r \in Settlements : RemoveItemResolves(s, r)
  \/ \E s \in SCSlots, r \in Settlements : KeysResolves(s, r)
  \/ \E s \in SCSlots, r \in Settlements : ClearResolves(s, r)
  \/ \E w \in scWrites, r \in Settlements : SetItemResolves(w, r)
  \/ \E s \in SCSlots : SCReturn(s)

SpecSC == InitSC /\ [][NextSC]_vars

\* Permission calls and registry calls side by side, each awaited operation
\* settling eventually: the calls one page has in flight on the manager and
\* the service of one relying origin
LiveManagers == {"mA"}

LiveNames == {"storageAccess"}

LiveSlots == {1}

LiveServices == {"sA"}

LiveServiceOps == {"register", "unregister"}

LiveUrls == { Url("https://a.example", "/h", ""),
              Url("https://b.example", "/h", "") }

\* the awaited operation of the permission call in slot s settles
PermissionCallSettles(s) ==
  \/ \E r \in StorageOutcomes : ReadSettles(s, r)
  \/ \E a \in ConsentAnswers : ConsentSettles(s, a)
  \/ \E r \in StorageOutcomes : WriteSettles(s, r)
  \/ \E r \in StorageOutcomes : RevokeWriteSettles(s, r)

\* the awaited operation of the registry call in slot s settles
ServiceCallSettles(s) ==
  \/ \E r \in Settlements : GetItemSettles(s, r)
  \/ \E r \in Settlements : SetOriginSettles(s, r)
  \/ \E r \in Settlements : SetHandlerSettles(s, r)
  \/ \E r \in Settlements : WaitUntilSettles(s, r)
  \/ \E r \in Settlements : RemoveItemSettles(s, r)

InitLive == InitCookieVars /\ InitPMVars /\ InitRegVars /\ InitSCVars

NextLive ==
  \/ \E m \in LiveManagers, n \in LiveNames : RegisterPermission(m, n)
  \/ \E s \in LiveSlots, op \in {"query", "request", "revoke"},
        m \in LiveManagers, n \in LiveNames : Invoke(s, op, m, n)
  \/ \E s \in LiveSlots : PermissionCallSettles(s)
  \/ \E s \in LiveSlots : Return(s)
  \/ \E s \in LiveSlots, op \in LiveServiceOps, svc \in LiveServices,
        t \in RequestTypes, u \in LiveUrls : InvokeService(s, op, svc, t, u)
  \/ \E s \in LiveSlots : ServiceCallSettles(s)
  \/ \E s \in LiveSlots : RReturn(s)

\* every awaited storage operation, the consent function and the work
\* attached through waitUntil settle eventually
LiveFairness ==
  \A s \in LiveSlots :
    /\ WF_vars(PermissionCallSettles(s))
    /\ WF_vars(ServiceCallSettles(s))

SpecLive == InitLive /\ [][NextLive]_vars /\ LiveFairness

(***************************************************************************)
(* Cookie driver claims                                                    *)
(***************************************************************************)
\* the cookie that instance inst addresses under key was last written
\* through another instance
WrittenThroughOther(inst, key) ==
  \E i \in 1..Len(jar) :
    /\ jar[i].name = KeyPrefix(inst) \o key
    /\ jar[i].writer # inst

\* C1: getItem, keys and iterate on an instance never return a key or a
\* value that was written through an instance with another composite name.
C1_NamespaceIsolation ==
  /\ (cLast.op = "getItem" /\ cLast.val # Null)
       => ~WrittenThroughOther(cLast.inst, cLast.key)
  /\ cLast.op = "keys"
       => \A i \in 1..Len(cLast.keys) :
            ~WrittenThroughOther(cLast.inst, cLast.keys[i])
  /\ cLast.op = "iterate"
       => \A i \in 1..Len(cLast.visits) :
            ~WrittenThroughOther(cLast.inst, cLast.visits[i].key)

\* C2: clear() removes every entry written through the instance and leaves
\* every entry written through any other instance in the jar unchanged.
C2_ClearOwnNamespaceOnly ==
  [][\A inst \in Instances :
       Clear(inst) =>
         \A k \in 1..Len(jar) :
           IF jar[k].writer = inst
             THEN jar[k].name \notin JarNames(jar')
             ELSE \E k2 \in 1..Len(jar') : jar'[k2] = jar[k]]_vars

(***************************************************************************)
(* PermissionManager claims                                                *)
(***************************************************************************)
Persisted(c) == store[OriginOf(c.mgr)][c.name]

\* C3: the status persisted for any permission name is never 'denied'.
C3_NeverPersistsDenied ==
  \A o \in Origins, n \in Names : store[o][n] # "denied"

\* a request whose consent answer was 'denied' has completed its write
C3_Witness ==
  \E s \in Slots :
    /\ calls[s].pc = "done" /\ calls[s].op = "request"
    /\ calls[s].answer = "denied" /\ calls[s].wrote

\* C4: a request that read 'prompt' and got 'denied' from the consent
\* function returns 'denied' to its caller, and a query reading the store at
\* that moment gets 'prompt'.
C4_DeniedReturnedPromptStored ==
  [][\A s \in Slots :
       ( /\ calls[s].pc = "write" /\ calls[s].status = "prompt"
         /\ calls[s].answer = "denied"
         /\ calls'[s].pc = "done" /\ calls'[s].err = "none" )
       => /\ calls'[s].ret = "denied"
          /\ StatusOf(store'[OriginOf(calls[s].mgr)][calls[s].name])
               = "prompt"]_vars

C4_Witness ==
  \E s \in Slots :
    /\ calls[s].pc = "done" /\ calls[s].op = "request"
    /\ calls[s].status = "prompt" /\ calls[s].answer = "denied"
    /\ calls[s].ret = "denied" /\ StatusOf(Persisted(calls[s])) = "prompt"

\* C5: the consent function is invoked only by a request that read 'prompt';
\* a request that read 'granted' returns 'granted' without invoking the
\* consent function and without writing to the store.
C5_ConsentOnlyOnPrompt ==
  \A s \in Slots :
    /\ calls[s].asked => (calls[s].op = "request" /\ calls[s].status = "prompt")
    /\ (calls[s].op = "request" /\ calls[s].status = "granted")
         => /\ calls[s].pc = "done" /\ calls[s].ret = "granted"
            /\ ~calls[s].asked /\ ~calls[s].wrote
            /\ calls[s].answer = "none"

C5_Witness ==
  \E s \in Slots :
    /\ calls[s].pc = "done" /\ calls[s].op = "request"
    /\ calls[s].status = "granted" /\ calls[s].ret = "granted"

\* the step is the store write of a revoke for name n on origin o
IsRevokeWrite(s, o, n) ==
  /\ calls[s].op = "revoke" /\ calls[s].pc = "revWrite"
  /\ calls'[s].pc # "revWrite"
  /\ OriginOf(calls[s].mgr) = o /\ calls[s].name = n

\* the step is the store write of a request for name n on origin o
IsRequestWrite(s, o, n) ==
  /\ calls[s].op = "request" /\ calls[s].pc = "write"
  /\ calls'[s].pc = "done"
  /\ OriginOf(calls[s].mgr) = o /\ calls[s].name = n

\* C6 (as claimed): once the persisted state is 'granted' it stays 'granted'
\* until a revoke for that name writes, whatever concurrently running
\* requests obtain from the consent function.
C6_GrantedUntilRevoke ==
  [][\A o \in Origins, n \in RegisteredNames :
       (store[o][n] = "granted" /\ store'[o][n] # "granted")
         => \E s \in Slots : IsRevokeWrite(s, o, n)]_vars

\* C6 (amended): the persisted state only moves prompt -> granted,
\* prompt -> prompt and granted -> prompt; a persisted 'granted' is changed
\* only by a revoke's write or by the write of a request that had read
\* 'prompt' before and was answered 'denied' or 'prompt'; a request that
\* reads 'granted' never writes, and every query that reads while the state
\* is 'granted' returns 'granted'.
C6_GrantedUntilRevokeOrStaleRequest ==
  [][\A o \in Origins, n \in Names :
       /\ store'[o][n] # store[o][n]
            => /\ store'[o][n] \in {"prompt", "granted"}
               /\ store'[o][n] = "granted" => store[o][n] # "granted"
       /\ (store[o][n] = "granted" /\ store'[o][n] # "granted")
            => \E s \in Slots :
                 \/ IsRevokeWrite(s, o, n)
                 \/ /\ IsRequestWrite(s, o, n)
                    /\ calls[s].status = "prompt"
                    /\ calls[s].answer \in {"denied", "prompt"}
       /\ \A s \in Slots :
            ( /\ calls[s].pc = "read" /\ calls'[s].pc = "done"
              /\ calls'[s].err = "none"
              /\ OriginOf(calls[s].mgr) = o /\ calls[s].name = n
              /\ store[o][n] = "granted" )
            => calls'[s].ret = "granted"
       /\ \A s \in Slots :
            (IsRequestWrite(s, o, n) /\ store'[o][n] # store[o][n])
              => calls[s].status = "prompt"]_vars

\* while the state is 'granted', a query has returned 'granted' and a request
\* that read 'prompt' earlier still has its write pending
C6_Witness ==
  \E s, t \in Slots :
    /\ calls[s].pc = "done" /\ calls[s].op = "query"
    /\ calls[s].ret = "granted" /\ Persisted(calls[s]) = "granted"
    /\ calls[t].op = "request" /\ calls[t].pc = "write"
    /\ calls[t].mgr = calls[s].mgr /\ calls[t].name = calls[s].name

\* C7 (as claimed): revoke of a registered name returns 'prompt'.
C7_RevokeReturnsPrompt ==
  \A s \in Slots :
    ( /\ calls[s].op = "revoke" /\ calls[s].known
      /\ calls[s].pc = "done" /\ calls[s].err = "none" )
      => calls[s].ret = "prompt"

\* C7 (amended): revoke persists 'prompt' and returns what its fresh query
\* reads; after revoke's write the persisted state stays 'prompt', for
\* revoke's own query and for any query that follows, until the write of a
\* request that was answered 'granted' lands.
C7_RevokePersistsPrompt ==
  [][\A s \in Slots :
       LET o == OriginOf(calls[s].mgr)
           n == calls[s].name
       IN /\ (IsRevokeWrite(s, o, n) /\ calls'[s].err = "none")
               => (store'[o][n] = "prompt" /\ calls'[s].pc = "read")
          /\ ( /\ calls[s].op = "revoke" /\ calls[s].pc = "read"
               /\ calls'[s].pc = "done" /\ calls'[s].err = "none" )
               => calls'[s].ret = StatusOf(store[o][n])
          /\ ( /\ calls[s].op = "revoke" /\ calls[s].pc \in {"read", "done"}
               /\ calls[s].err = "none"
               /\ store[o][n] = "prompt" /\ store'[o][n] # "prompt" )
               => \E t \in Slots :
                    IsRequestWrite(t, o, n) /\ calls[t].answer = "granted"]_vars

C7_Witness ==
  \E s \in Slots :
    /\ calls[s].op = "revoke" /\ calls[s].pc = "done" /\ calls[s].known
    /\ calls[s].err = "none" /\ calls[s].wrote
    /\ calls[s].ret = "prompt" /\ Persisted(calls[s]) = "prompt"

\* C8: a call whose name was never registered on its manager fails with
\* 'Unknown permission', without invoking the consent function and without
\* reading or writing the store.
C8_UnregisteredNameRejected ==
  \A s \in Slots :
    (calls[s].pc # "idle" /\ ~calls[s].known)
      => /\ calls[s].pc = "done"
         /\ calls[s].err = "Unknown permission"
         /\ ~calls[s].asked /\ ~calls[s].wrote
         /\ calls[s].status = "none"

\* C9: when the read fails with the 'no storage available' signature query
\* returns the default 'prompt' and raises no error; when it fails with
\* another error query fails with that error.
C9_QuerySwallowsNoStorage ==
  [][\A s \in Slots :
       /\ (ReadSettles(s, "noStorage") /\ calls[s].op = "query")
            => (calls'[s].ret = "prompt" /\ calls'[s].err = "none")
       /\ (ReadSettles(s, "otherError") /\ calls[s].op = "query")
            => calls'[s].err = "otherError"]_vars

\* C10: when a write fails with the constrained-storage signature request
\* still returns the consent function's status and revoke still goes on to
\* its fresh query, neither raising an error; a write failing with another
\* error makes request or revoke fail with that error.
C10_WriteSwallowsNoStorage ==
  [][\A s \in Slots :
       /\ WriteSettles(s, "noStorage")
            => (calls'[s].ret = calls[s].answer /\ calls'[s].err = "none")
       /\ RevokeWriteSettles(s, "noStorage")
            => (calls'[s].pc = "read" /\ calls'[s].err = "none")
       /\ WriteSettles(s, "otherError") => calls'[s].err = "otherError"
       /\ RevokeWriteSettles(s, "otherError")
            => calls'[s].err = "otherError"]_vars

(***************************************************************************)
(* Claims about the handler registry (SpecReg)                             *)
(***************************************************************************)
\* what a _getAllRegistrations(t) that runs alone returns, as a set
GetAllOf(idx, h, t) ==
  UNION { { UrlsOf(h, cfg)[i] : i \in 1..Len(UrlsOf(h, cfg)) } :
          cfg \in IndexConfigs(idx, t) }

\* the registration a service call addresses: the normalized form of its URL
\* argument in the handler store of the service's relying origin
Registered(h, c) ==
  HasItem(h, c.t, RelyingOrigin(c.svc),
          NormalizeUrl(c.url, RelyingOrigin(c.svc)))

\* C11: register is idempotent: a register call for a URL that is already
\* registered changes neither the origin index nor any handler store (so
\* getAllRegistrations returns the same as before), and every register that
\* completes returns the normalized URL, the second as the first.
C11_RegisterIdempotent ==
  [][\A s \in RSlots :
       (rcalls'[s] # rcalls[s] /\ rcalls'[s].op = "register") =>
         /\ ( /\ Registered(handlers, rcalls'[s])
              /\ originIndex[rcalls'[s].t][RelyingOrigin(rcalls'[s].svc)]
                   # NoConfig )
              => /\ originIndex' = originIndex
                 /\ handlers' = handlers
                 /\ GetAllOf(originIndex', handlers', rcalls'[s].t)
                      = GetAllOf(originIndex, handlers, rcalls'[s].t)
         /\ (rcalls'[s].pc = "done" /\ rcalls'[s].err = "none")
              => rcalls'[s].retUrl =
                   NormalizeUrl(rcalls'[s].url, RelyingOrigin(rcalls'[s].svc))
    ]_vars

C11_Witness ==
  \E s \in RSlots :
    /\ rcalls[s].op = "register" /\ rcalls[s].pc = "done"
    /\ rcalls[s].err = "none"
    /\ rcalls[s].existing # NoUrl
    /\ rcalls[s].url.query # ""
    /\ rcalls[s].retUrl = rcalls[s].existing

\* C12: an unregister whose lookup finds no registration returns false,
\* emits no 'unregister' notification and leaves the origin index and every
\* handler store unchanged.
C12_UnregisterAbsent ==
  [][\A s \in RSlots :
       ( /\ rcalls[s].op = "unregister"
         /\ GetItemSettles(s, "ok")
         /\ ~Registered(handlers, rcalls[s]) )
         => /\ rcalls'[s].pc = "done" /\ rcalls'[s].err = "none"
            /\ rcalls'[s].retBool = "false"
            /\ ~rcalls'[s].emitted
            /\ originIndex' = originIndex
            /\ handlers' = handlers]_vars

C12_Witness ==
  \E s \in RSlots :
    /\ rcalls[s].op = "unregister" /\ rcalls[s].pc = "done"
    /\ rcalls[s].err = "none" /\ rcalls[s].retBool = "false"
    /\ ~rcalls[s].emitted
    /\ \E o \in RegOrigins : handlers[rcalls[s].t][o] # {}

\* C13: when register completes, hasRegistration is true, getRegistration
\* gives the normalized URL and getAllRegistrations contains it; when
\* unregister completes with true, hasRegistration is false, getRegistration
\* gives null and getAllRegistrations no longer contains it.
C13_RegisterThenUnregister ==
  [][\A s \in RSlots :
       LET c == rcalls'[s]
           url == NormalizeUrl(c.url, RelyingOrigin(c.svc))
           has == Registered(handlers', c)
           completes == /\ rcalls[s].pc # "done" /\ c.pc = "done"
                        /\ c.err = "none"
       IN /\ (completes /\ c.op = "register")
               => /\ has
                  /\ GetRegistrationResult(has, url) = url
                  /\ url \in GetAllOf(originIndex', handlers', c.t)
          /\ (completes /\ c.op = "unregister" /\ c.retBool = "true")
               => /\ ~has
                  /\ GetRegistrationResult(has, url) = NoUrl
                  /\ url \notin GetAllOf(originIndex', handlers', c.t)]_vars

C13_Witness ==
  \E s \in RSlots :
    /\ rcalls[s].op = "unregister" /\ rcalls[s].pc = "done"
    /\ rcalls[s].err = "none" /\ rcalls[s].retBool = "true"
    /\ rcalls[s].url.query # ""
    /\ ~Registered(handlers, rcalls[s])
    /\ originIndex[rcalls[s].t][RelyingOrigin(rcalls[s].svc)] # NoConfig

\* C14: register, unregister, getRegistration and hasRegistration called
\* with a URL of another origin than the relying origin fail with the origin
\* error at once, emit no notification and leave the origin index and every
\* handler store unchanged.
C14_ForeignOriginRejected ==
  [][\A s \in RSlots :
       ( /\ rcalls'[s] # rcalls[s]
         /\ rcalls'[s].op \in ServiceOps
         /\ rcalls'[s].url.origin # RelyingOrigin(rcalls'[s].svc) )
         => /\ rcalls[s].pc = "idle"
            /\ rcalls'[s].pc = "done" /\ rcalls'[s].err = "origin"
            /\ ~rcalls'[s].emitted
            /\ originIndex' = originIndex
            /\ handlers' = handlers]_vars

C14_Witness ==
  \E s \in RSlots :
    /\ rcalls[s].op = "unregister" /\ rcalls[s].pc = "done"
    /\ rcalls[s].err = "origin"
    /\ rcalls[s].url.origin # RelyingOrigin(rcalls[s].svc)
    /\ HasItem(handlers, rcalls[s].t, rcalls[s].url.origin,
               HandlerUrl(rcalls[s].url))

\* C15: in unregister the notification is emitted and the work attached
\* through waitUntil has resolved before the handler-store entry is removed;
\* when that work rejects, unregister fails with the rejection and removes
\* nothing.
C15_WaitUntilBeforeRemoval ==
  [][\A s \in RSlots :
       /\ (rcalls[s].op = "unregister" /\ rcalls'[s].pc = "removeItem")
            => /\ rcalls[s].pc \in {"waitUntil", "removeItem"}
               /\ rcalls[s].emitted
       /\ RemoveItemSettles(s, "ok") => rcalls[s].emitted
       /\ (rcalls[s].op = "unregister" /\ WaitUntilSettles(s, "ok"))
            => handlers' = handlers
       /\ (rcalls[s].op = "unregister" /\ WaitUntilSettles(s, "error"))
            => /\ rcalls'[s].pc = "done" /\ rcalls'[s].err = "rejected"
               /\ handlers' = handlers
               /\ Registered(handlers, rcalls[s])
                    => Registered(handlers', rcalls[s])]_vars

C15_Witness ==
  \E s \in RSlots :
    /\ rcalls[s].op = "unregister" /\ rcalls[s].pc = "done"
    /\ rcalls[s].err = "rejected" /\ rcalls[s].emitted
    /\ Registered(handlers, rcalls[s])

\* C16: a _getAllRegistrations(t) that ran with no other registry call in
\* flight returns exactly the URLs held in the handler stores of type t
\* across all origins, each once.
C16_GetAllExact ==
  \A s \in RSlots :
    LET c == rcalls[s]
    IN ( /\ c.op = "_getAllRegistrations" /\ c.pc = "done"
         /\ c.err = "none" /\ c.quiet )
         => /\ { c.retList[i] : i \in 1..Len(c.retList) }
                 = UNION { handlers[c.t][o] : o \in RegOrigins }
            /\ \A i, j \in 1..Len(c.retList) :
                 c.retList[i] = c.retList[j] => i = j

C16_Witness ==
  \E s \in RSlots :
    /\ rcalls[s].op = "_getAllRegistrations" /\ rcalls[s].pc = "done"
    /\ rcalls[s].err = "none" /\ rcalls[s].quiet
    /\ Len(rcalls[s].retList) = 3

\* C17: _getAllRegistrations starts one read per origin in the index and
\* returns a list only when every one of them has completed; when a read
\* fails it fails with that error and returns no partial list.
C17_GetAllJoinsReads ==
  [][\A s \in RSlots :
       /\ (IterateIndexSettles(s, "ok") /\ rcalls'[s].pc = "fanOut")
            => rcalls'[s].pending = IndexConfigs(originIndex, rcalls[s].t)
       /\ ( /\ rcalls'[s].op = "_getAllRegistrations"
            /\ rcalls'[s].pc = "done" /\ rcalls'[s].err = "none" )
            => rcalls'[s].pending = {}
       /\ \A cfg \in rcalls[s].pending :
            OriginReadSettles(s, cfg, "error")
              => /\ rcalls'[s].pc = "done"
                 /\ rcalls'[s].err = "storage"
                 /\ rcalls'[s].retList = <<>>]_vars

C17_Witness ==
  \E s \in RSlots :
    /\ rcalls[s].op = "_getAllRegistrations" /\ rcalls[s].pc = "done"
    /\ rcalls[s].err = "storage"
    /\ rcalls[s].acc # <<>> /\ rcalls[s].pending # {}


(***************************************************************************)
(* Claims about concurrent requests (SpecPM)                               *)
(***************************************************************************)
\* slots s and t hold request calls for the same registered descriptor of
\* one manager
SameDescriptor(s, t) ==
  /\ s # t
  /\ calls[s].op = "request" /\ calls[t].op = "request"
  /\ calls[s].mgr = calls[t].mgr /\ calls[s].name = calls[t].name
  /\ calls[s].known /\ calls[t].known

\* C18: the manager keeps no at-most-one prompt: a request that reads
\* 'prompt' invokes the consent function also while another request for the
\* same descriptor is waiting for its consent answer or for its write, and
\* the write of either call lands with its own answer while the other's
\* write is still to come.
C18_NoSingleFlightConsent ==
  [][\A s, t \in Slots :
       /\ ( /\ SameDescriptor(s, t)
            /\ calls[t].pc \in {"consent", "write"}
            /\ ReadSettles(s, "ok")
            /\ StatusOf(store[OriginOf(calls[s].mgr)][calls[s].name])
                 = "prompt" )
            => /\ calls'[s].pc = "consent" /\ calls'[s].asked
               /\ calls'[t] = calls[t]
       /\ ( /\ SameDescriptor(s, t)
            /\ calls[t].pc = "write"
            /\ WriteSettles(s, "ok") )
            => /\ store'[OriginOf(calls[s].mgr)][calls[s].name]
                    = StoreStatus(calls[s].answer)
               /\ calls'[t] = calls[t]]_vars

C18_Witness ==
  \E s, t \in Slots :
    /\ SameDescriptor(s, t)
    /\ calls[s].status = "prompt" /\ calls[t].status = "prompt"
    /\ calls[s].asked /\ calls[t].asked
    /\ calls[s].pc = "done" /\ calls[s].wrote /\ calls[s].answer = "granted"
    /\ calls[t].pc = "write" /\ calls[t].answer = "denied"

(***************************************************************************)
(* Claims about setItem / getItem and dropInstance (SpecCookie)            *)
(***************************************************************************)
\* C19: setItem(k, v) returns v and a getItem(k) on the same instance right
\* after it returns v; for v undefined both give null.
C19_SetThenGet ==
  cLast.op = "setItem" =>
    LET v == IF cLast.arg = Undefined THEN Null ELSE cLast.arg
    IN /\ cLast.val = v
       /\ GetItemOf(jar, cLast.inst, cLast.key) = v

C19_Witness ==
  /\ cLast.op = "setItem" /\ cLast.arg = Undefined
  /\ GetItemOf(jar, cLast.inst, cLast.key) = Null
  /\ KeyPrefix(cLast.inst) \o cLast.key \in JarNames(jar)
  /\ Len(jar) > 1

\* the bare prefix of a name: `_lf_${name}__`
BarePrefix(name) == <<"_", "l", "f", "_">> \o name \o <<"_", "_">>

\* C20: after dropInstance with a name and no store name, whichever
\* instance it was called on, no cookie whose name starts with the bare
\* prefix of that name is left, and only such cookies were removed.
C20_DropByNameOnly ==
  ( /\ cLast.op = "dropInstance"
    /\ cLast.options.name # NoString /\ cLast.options.storeName = NoString )
    => /\ \A n \in JarNames(jar) :
            ~StartsWith(n, BarePrefix(cLast.options.name))
       /\ \A i \in 1..Len(cLast.removed) :
            StartsWith(cLast.removed[i], BarePrefix(cLast.options.name))

C20_Witness ==
  /\ cLast.op = "dropInstance" /\ cLast.inst = InstQ
  /\ cLast.options = [name |-> <<"p">>, storeName |-> NoString]
  /\ \E i, j \in 1..Len(cLast.removed) :
       /\ cLast.removed[i] = KeyPrefix(InstPX) \o <<"a">>
       /\ cLast.removed[j] = KeyPrefix(InstP) \o <<"a">>


(***************************************************************************)
(* Claims about iterate, key and completion callbacks (SpecCookie)         *)
(***************************************************************************)
\* C21: iterate stops at the first entry for which the visitor returns a
\* value other than undefined, returns that value and calls the visitor for
\* no later entry; with a visitor that returns undefined for every entry it
\* visits every entry of the namespace once and returns undefined.
C21_IterateStopsEarly ==
  (cLast.op = "iterate" /\ cLast.err = "none") =>
    LET all == VisitsOf(jar, cLast.inst)
        prefix == KeyPrefix(cLast.inst)
    IN IF cLast.visitor.at \in 1..Len(all)
         THEN /\ cLast.val = cLast.visitor.value
              /\ cLast.visits = SubSeq(all, 1, cLast.visitor.at)
         ELSE /\ cLast.val = Undefined
              /\ \A n \in JarNames(jar) :
                   StartsWith(n, prefix) =>
                     \E i \in 1..Len(cLast.visits) :
                       /\ cLast.visits[i].key = Substring(n, Len(prefix))
                       /\ \A k \in 1..Len(cLast.visits) :
                            cLast.visits[k].key = cLast.visits[i].key
                              => k = i
              /\ Len(cLast.visits) = Len(Matching(jar, cLast.inst))

C21_Witness ==
  /\ cLast.op = "iterate" /\ cLast.err = "none"
  /\ cLast.visitor.at = 1 /\ cLast.visitor.does = "return"
  /\ Len(VisitsOf(jar, cLast.inst)) = 2
  /\ Len(cLast.visits) = 1
  /\ cLast.val = Null

\* C22: the ordinals iterate passes to the visitor are 1, 2, 3, ... in
\* visiting order: the i-th visited entry gets ordinal i, whatever cookies
\* of other namespaces the jar holds and wherever they are.
C22_OrdinalsCountVisited ==
  cLast.op = "iterate" =>
    \A i \in 1..Len(cLast.visits) : cLast.visits[i].ordinal = i

C22_Witness ==
  /\ cLast.op = "iterate"
  /\ Len(cLast.visits) = 1
  /\ Len(jar) = 2
  /\ ~StartsWith(jar[1].name, KeyPrefix(cLast.inst))
  /\ cLast.visits[1].ordinal = 1

\* C23: key(n) returns the n-th element (0-indexed) of keys() on the same
\* instance, the key with the namespace prefix stripped, and null when n is
\* out of range.
C23_KeyMatchesKeys ==
  cLast.op = "key" =>
    LET ks == KeysOf(jar, cLast.inst)
    IN IF cLast.n \in 0..(Len(ks) - 1)
         THEN cLast.keyAt = << ks[cLast.n + 1] >>
         ELSE cLast.keyAt = <<>>

\* C24: an operation invoked with a completion callback calls it exactly
\* once: with the error when the operation failed, else with the result the
\* awaited form yields.
C24_CallbackExactlyOnce ==
  cLast.callback =>
    /\ Len(cLast.cbCalls) = 1
    /\ IF cLast.err # "none"
         THEN cLast.cbCalls[1].err = cLast.err
         ELSE cLast.cbCalls[1] = CallbackArgs("none", cLast.val)


(***************************************************************************)
(* Claims about SimpleContainerService (SpecSC)                            *)
(***************************************************************************)
\* C25: every operation (get, keys, has, set, delete, clear) whose permission
\* query resolves while the status of the required permission is not
\* 'granted' fails with 'Permission denied.' and leaves the item stores
\* unchanged, with no write issued.
C25_DeniedWithoutPermission ==
  [][\A s \in SCSlots :
       (CheckPermissionSettles(s, "ok") /\ scPerm # "granted")
         => /\ sccalls'[s].pc = "done"
            /\ sccalls'[s].err = "Permission denied."
            /\ items' = items
            /\ scWrites' = scWrites]_vars

C25_Witness ==
  \E s, t \in SCSlots :
    /\ sccalls[s].op = "set" /\ sccalls[s].pc = "done"
    /\ sccalls[s].err = "Permission denied."
    /\ sccalls[t].op = "clear" /\ sccalls[t].pc = "done"
    /\ sccalls[t].err = "Permission denied."
    /\ \E u \in SCUrls, k \in SCKeys : items[u][k] # NoItem


(***************************************************************************)
(* Claims about registries and origins of PermissionManager (SpecPM)       *)
(***************************************************************************)
\* C26: registering a name on one manager leaves the registry of every
\* other manager unchanged, and a query, request or revoke through a manager
\* on which the name was not registered fails with the unknown-permission
\* error also when the name is registered on another manager.
C26_RegistryPerManager ==
  [][/\ \A m \in Managers, n \in RegisteredNames :
          RegisterPermission(m, n)
            => \A m2 \in Managers \ {m} :
                 /\ registry'[m2] = registry[m2]
                 /\ ValidDescriptor(registry'[m2], n)
                      = ValidDescriptor(registry[m2], n)
     /\ \A s \in Slots :
          ( /\ calls'[s].pc # "idle"
            /\ calls'[s].name \in RegisteredNames
            /\ calls'[s].name \notin registry'[calls'[s].mgr] )
            => /\ calls'[s].pc = "done"
               /\ calls'[s].err = "Unknown permission"]_vars

C26_Witness ==
  \E s \in Slots, m \in Managers :
    /\ calls[s].pc = "done" /\ calls[s].err = "Unknown permission"
    /\ calls[s].mgr # m
    /\ calls[s].name \in registry[m]
    /\ calls[s].name \notin registry[calls[s].mgr]


\* C28: a request whose consent function resolved to something that is not
\* a status object with a valid state is failed with the validation error
\* and has written nothing, and the permission store never holds such a
\* value.
C28_InvalidConsentNotStored ==
  /\ \A s \in Slots :
       calls[s].answer \in ConsentAnswers \ VALID_PERMISSION_STATES
         => /\ calls[s].pc = "done"
            /\ calls[s].err = StatusError(calls[s].answer)
            /\ calls[s].ret = "none"
            /\ ~calls[s].wrote
  /\ \A o \in Origins, n \in Names :
       store[o][n] \in VALID_PERMISSION_STATES \cup {"absent"}

C28_Witness ==
  \E s \in Slots :
    /\ calls[s].op = "request" /\ calls[s].pc = "done"
    /\ calls[s].asked
    /\ calls[s].answer = "notObject"
    /\ calls[s].err = "status must be an object"
    /\ \E t \in Slots \ {s} : calls[t].answer = "invalid"


\* C30: a step of a request or revoke made through one manager leaves, for
\* every permission name, the status that query returns through every other
\* manager (constructed for a different origin) as it was.
C30_OtherOriginStatusKept ==
  [][\A s \in Slots :
       ( /\ calls[s].op \in {"request", "revoke"}
         /\ calls'[s] # calls[s] )
         => \A m2 \in Managers \ {calls[s].mgr}, n \in Names :
              StatusOf(store'[OriginOf(m2)][n])
                = StatusOf(store[OriginOf(m2)][n])]_vars

C30_Witness ==
  \E s, t \in Slots :
    /\ "storageAccess" \in registry["mA"] \cap registry["mB"]
    /\ calls[s].mgr = "mA" /\ calls[s].op = "request"
    /\ calls[s].name = "storageAccess"
    /\ calls[s].pc = "done" /\ calls[s].wrote /\ calls[s].ret = "granted"
    /\ store[OriginOf("mA")]["storageAccess"] = "granted"
    /\ calls[t].mgr = "mB" /\ calls[t].op = "query"
    /\ calls[t].name = "storageAccess"
    /\ calls[t].pc = "done" /\ calls[t].ret = "prompt"


(***************************************************************************)
(* Claims about the handler stores (SpecReg)                               *)
(***************************************************************************)
\* C29: every URL held in the handler store of a request type and an origin
\* has that origin, whether register or the static _setRegistration wrote it.
C29_StoredUrlHasStoreOrigin ==
  \A t \in RequestTypes, o \in RegOrigins :
    \A u \in handlers[t][o] : u.origin = o

C29_Witness ==
  \E s, x \in RSlots, t \in RequestTypes :
    /\ rcalls[s].op = "register" /\ rcalls[s].pc = "done"
    /\ rcalls[s].err = "none" /\ rcalls[s].existing = NoUrl
    /\ rcalls[s].retUrl \in handlers[t][RelyingOrigin(rcalls[s].svc)]
    /\ rcalls[x].op = "_setRegistration" /\ rcalls[x].pc = "done"
    /\ rcalls[x].err = "none"
    /\ rcalls[x].url.origin # RelyingOrigin(rcalls[s].svc)
    /\ rcalls[x].retUrl \in handlers[t][rcalls[x].url.origin]


(***************************************************************************)
(* Termination (SpecLive)                                                  *)
(***************************************************************************)
\* C27: when every awaited storage operation, the consent function and the
\* work attached through waitUntil settle eventually, every query, request
\* or revoke in flight and every register or unregister in flight
\* eventually completes or fails.
C27_EveryCallSettles ==
  \A s \in LiveSlots :
    /\ (calls[s].pc \notin {"idle", "done"}) ~> (calls[s].pc = "done")
    /\ InFlight(rcalls[s]) ~> (rcalls[s].pc = "done")

C27_Witness ==
  \E s \in LiveSlots :
    /\ calls[s].op = "request" /\ calls[s].pc = "done"
    /\ calls[s].asked /\ calls[s].wrote
    /\ rcalls[s].op = "unregister" /\ rcalls[s].pc = "done"
    /\ rcalls[s].emitted /\ rcalls[s].retBool = "true"


(***************************************************************************)
(* Claims about the order of getAllRegistrations (SpecReg)                 *)
(***************************************************************************)
\* the position of a URL in the enumeration order of a handler store
KeyRank(u) == CHOOSE i \in 1..Len(KeyOrder) : KeyOrder[i] = u

\* C31: in the list a _getAllRegistrations collects and returns, the URLs of
\* one origin are contiguous and in the enumeration order of that origin's
\* handler store, in whatever order the per-origin reads completed.
C31_OriginUrlsContiguous ==
  \A s \in RSlots :
    LET c == rcalls[s]
        list == IF c.pc = "done" THEN c.retList ELSE c.acc
    IN c.op = "_getAllRegistrations"
         => \A i, k \in 1..Len(list) :
              (i < k /\ list[i].origin = list[k].origin)
                => /\ \A j \in i..k : list[j].origin = list[i].origin
                   /\ KeyRank(list[i]) < KeyRank(list[k])

C31_Witness ==
  \E s \in RSlots :
    /\ rcalls[s].op = "_getAllRegistrations" /\ rcalls[s].pc = "done"
    /\ rcalls[s].err = "none"
    /\ rcalls[s].retList = << Url("https://b.example", "/h", ""),
                              Url("https://a.example", "/g", ""),
                              Url("https://a.example", "/h", "") >>


EmittedNotRemoved(s) ==
  /\ rcalls[s].op = "unregister" /\ rcalls[s].emitted
  /\ rcalls[s].pc \in {"waitUntil", "removeItem"}

\* C33: the 'unregister' notification is emitted at most once per
\* registration: no two unregister calls for the same request type and URL
\* have both emitted it while the registration is still stored, so no two
\* of them go on to return true for it.
C33_UnregisterNotifiesOnce ==
  \A s, x \in RSlots :
    ( /\ s # x
      /\ EmittedNotRemoved(s) /\ EmittedNotRemoved(x)
      /\ rcalls[s].t = rcalls[x].t /\ rcalls[s].o = rcalls[x].o )
      => rcalls[s].reg # rcalls[x].reg


(***************************************************************************)
(* Claims about the origin index (SpecReg)                                 *)
(***************************************************************************)
\* C34: every origin whose handler store of a request type holds a URL is a
\* key of the origin index of that type, also between the two writes of a
\* registration.
C34_IndexCoversHandlers ==
  \A t \in RequestTypes, o \in RegOrigins :
    handlers[t][o] # {}
      => o \in { cfg.origin : cfg \in IndexConfigs(originIndex, t) }

C34_Witness ==
  \E s \in RSlots, t \in RequestTypes, o, o2 \in RegOrigins :
    /\ rcalls[s].pc = "setHandler" /\ rcalls[s].t = t /\ rcalls[s].o = o
    /\ originIndex[t][o] # NoConfig /\ handlers[t][o] = {}
    /\ handlers[t][o2] # {}

\* C35: no step removes or changes an entry of the origin index, and the
\* read that _getAllRegistrations makes of an indexed origin whose handler
\* store is empty adds no URL to the list.
C35_IndexEntriesStay ==
  [][/\ \A t \in RequestTypes, o \in RegOrigins :
          originIndex[t][o] # NoConfig
            => originIndex'[t][o] = originIndex[t][o]
     /\ \A s \in RSlots : \A cfg \in rcalls[s].pending :
          ( /\ OriginReadSettles(s, cfg, "ok")
            /\ handlers[cfg.requestType][cfg.origin] = {} )
            => /\ cfg \in IndexConfigs(originIndex, rcalls[s].t)
               /\ rcalls'[s].acc = rcalls[s].acc]_vars

C35_Witness ==
  \E s, x \in RSlots, t \in RequestTypes, o \in RegOrigins :
    /\ rcalls[s].op = "unregister" /\ rcalls[s].pc = "done"
    /\ rcalls[s].retBool = "true" /\ rcalls[s].t = t /\ rcalls[s].o = o
    /\ handlers[t][o] = {} /\ originIndex[t][o] # NoConfig
    /\ rcalls[x].op = "_getAllRegistrations" /\ rcalls[x].pc = "done"
    /\ rcalls[x].err = "none" /\ rcalls[x].t = t
    /\ rcalls[x].pending = {} /\ rcalls[x].retList = <<>>


(***************************************************************************)
(* Claims about the default consent function (SpecPM)                      *)
(***************************************************************************)
\* C36: through a manager constructed without a consent function, a request
\* that found 'prompt' and completed returned 'denied', every request write
\* was made for the answer 'denied', and the persisted state of no permission
\* name of that manager's origin is 'granted'.
C36_DefaultConsentDenies ==
  \A m \in DefaultConsentManagers :
    /\ \A s \in Slots :
         (calls[s].mgr = m /\ calls[s].op = "request")
           => /\ ( /\ calls[s].asked /\ calls[s].pc = "done"
                   /\ calls[s].err = "none" )
                   => calls[s].ret = "denied"
              /\ calls[s].wrote => calls[s].answer = "denied"
    /\ \A n \in Names : store[OriginOf(m)][n] # "granted"

C36_Witness ==
  \E s \in Slots, m \in DefaultConsentManagers :
    /\ calls[s].mgr = m /\ calls[s].op = "request"
    /\ calls[s].name \in registry[m]
    /\ calls[s].status = "prompt" /\ calls[s].asked
    /\ calls[s].pc = "done" /\ calls[s].wrote /\ calls[s].ret = "denied"
    /\ store[OriginOf(m)][calls[s].name] = "prompt"


(***************************************************************************)
(* Claims about permission and storage access of SimpleContainerService    *)
(* (SpecSC)                                                                *)
(***************************************************************************)
\* the step is a storage access of the container service: a getItem, keys,
\* removeItem, clear or setItem on an item store is carried out
StorageAccess ==
  \/ \E s \in SCSlots, r \in Settlements :
       \/ GetItemResolves(s, r)
       \/ RemoveItemResolves(s, r)
       \/ KeysResolves(s, r)
       \/ ClearResolves(s, r)
  \/ \E w \in scWrites, r \in Settlements : SetItemResolves(w, r)

\* C37: every storage access of the container service is carried out while
\* the persisted state of the required permission is 'granted', also when
\* the permission was revoked after the call's permission check.
C37_AccessOnlyWhileGranted ==
  [][StorageAccess => scPerm = "granted"]_vars


\* C38: at the step where a set(url, key, item) resolves the item is stored
\* under the key, and a setItem that fails makes the set call that issued
\* it fail.
C38_SetResolvesAfterStore ==
  [][/\ \A s \in SCSlots :
          ( /\ sccalls[s].op = "set" /\ sccalls[s].pc = "query"
            /\ sccalls'[s].pc = "done" /\ sccalls'[s].err = "none" )
            => items'[sccalls[s].url][sccalls[s].key] = sccalls[s].item
     /\ \A w \in scWrites :
          SetItemResolves(w, "error")
            => \E s \in SCSlots :
                 /\ sccalls'[s].op = "set" /\ sccalls'[s].pc = "done"
                 /\ sccalls'[s].url = w.url /\ sccalls'[s].key = w.key
                 /\ sccalls'[s].item = w.item
                 /\ sccalls'[s].err = "storage"]_vars


\* C39: a call made with a URL whose origin is not the relying origin never
\* gets past its permission check to a storage call and ends in failure, no
\* write is pending for such a URL, and the item store of such a URL stays
\* as it was created.
C39_ForeignUrlNeverReachesStorage ==
  /\ \A s \in SCSlots :
       ( /\ sccalls[s].pc # "idle"
         /\ sccalls[s].url.origin # SCRelyingOrigin )
         => /\ sccalls[s].pc \in {"query", "done"}
            /\ sccalls[s].pc = "done"
                 => /\ sccalls[s].err \in {"query", "Permission denied.",
                                           "invalid key", "invalid item",
                                           "origin"}
                    /\ sccalls[s].retItem = "none"
                    /\ sccalls[s].retBool = "none"
                    /\ sccalls[s].retKeys = {}
  /\ \A w \in scWrites : w.url.origin = SCRelyingOrigin
  /\ \A u \in SCUrls :
       u.origin # SCRelyingOrigin => \A k \in SCKeys : items[u][k] = NoItem

C39_Witness ==
  \E s, t \in SCSlots, k \in SCKeys :
    /\ scPerm = "granted"
    /\ sccalls[s].op = "set" /\ sccalls[s].pc = "done"
    /\ sccalls[s].url.origin # SCRelyingOrigin
    /\ sccalls[s].err = "origin"
    /\ sccalls[t].op = "get" /\ sccalls[t].pc = "done"
    /\ sccalls[t].url.origin = SCRelyingOrigin
    /\ sccalls[t].err = "none" /\ sccalls[t].retItem # NoItem


====
